---- MODULE Spec2Model ----
(***************************************************************************)
(* A model of pycroscopy's Cluster engine (processing/cluster.py) and of   *)
(* the G-mode translators (io/translators/gmode_line.py, gmode_iv.py).     *)
(*                                                                         *)
(* Arrays are functions over 0-based index ranges, as in the Python code.  *)
(* Real numbers are exact rationals <<num, den>> in lowest terms; the mean *)
(* of an empty selection is NaN, as numpy computes it.  The main dataset   *)
(* is real valued, so the dtype transforms are casts that keep the value.  *)
(***************************************************************************)
EXTENDS Integers, Sequences, FiniteSets, TLC

(***************************************************************************)
(* Bounds of the model.                                                    *)
(***************************************************************************)
NumRows == 3        \* rows (positions) of the main dataset
NumFeat == 3        \* columns (features) of the main dataset
MaxVal == 1         \* the rows of the data start at values in 0..MaxVal
MaxClusters == 3    \* fit labels are drawn from 0..MaxClusters-1
NumSpecDims == 1    \* spectroscopic dimensions of the source dataset

Rows == 0 .. NumRows - 1
Feats == 0 .. NumFeat - 1

(***************************************************************************)
(* Numbers.                                                                *)
(***************************************************************************)
Abs(x) == IF x < 0 THEN -x ELSE x
Min(x, y) == IF x < y THEN x ELSE y
Max(x, y) == IF x < y THEN y ELSE x

RECURSIVE Gcd(_, _)
Gcd(x, y) == IF y = 0 THEN x ELSE Gcd(y, x % y)

NaN == <<0, 0>>
Rat(num, den) == IF den = 0 THEN NaN ELSE <<num \div Gcd(num, den), den \div Gcd(num, den)>>

RECURSIVE SumOver(_, _)
SumOver(f, S) == IF S = {} THEN 0
                 ELSE LET i == CHOOSE j \in S : TRUE IN f[i] + SumOver(f, S \ {i})

\* range(n)
Range(n) == 0 .. n - 1
\* the sequence lo, lo+1, ..., hi-1
RangeSeq(lo, hi) == [k \in 1 .. Max(hi - lo, 0) |-> lo + k - 1]
\* the elements of a set of numbers in increasing order
RECURSIVE SortedSeq(_)
SortedSeq(S) == IF S = {} THEN <<>>
                ELSE LET m == CHOOSE x \in S : \A y \in S : x <= y
                     IN <<m>> \o SortedSeq(S \ {m})
SeqSet(s) == {s[k] : k \in 1 .. Len(s)}

(***************************************************************************)
(* The source file: the main dataset and its ancillary datasets.           *)
(***************************************************************************)
AncRoles == {"Position_Indices", "Position_Values",
             "Spectroscopic_Indices", "Spectroscopic_Values"}
NoRef == "none"

\* The ancillary datasets of the source, with their shapes: position datasets are
\* (samples, dimensions), spectroscopic datasets are (dimensions, samples).
SourceAnc == [Position_Indices |-> <<NumRows, 1>>,
              Position_Values |-> <<NumRows, 1>>,
              Spectroscopic_Indices |-> <<NumSpecDims, NumFeat>>,
              Spectroscopic_Values |-> <<NumSpecDims, NumFeat>>,
              Short_Indices |-> <<NumSpecDims, NumFeat - 1>>]
SourceRefs == [Position_Indices |-> "Position_Indices",
               Position_Values |-> "Position_Values",
               Spectroscopic_Indices |-> "Spectroscopic_Indices",
               Spectroscopic_Values |-> "Spectroscopic_Values"]

\* The datasets a caller may hand to Cluster: a main dataset, one that lacks a
\* reference, one whose spectroscopic reference names a dataset of another size.
RefChoices == {SourceRefs,
               [SourceRefs EXCEPT !.Position_Values = NoRef],
               [SourceRefs EXCEPT !.Spectroscopic_Indices = "Short_Indices"]}

\* The data of the source: row i starts at (i * stride) % (MaxVal+1), so the rows are
\* all equal (stride 0) or differ; the columns of a row differ by MaxVal+1.
MainData(stride) ==
    [i \in Rows |-> [f \in Feats |-> ((i * stride) % (MaxVal + 1)) + f * (MaxVal + 1)]]

\* hdf_utils.checkIfMain: all four references resolve and the sample counts agree
\* with the dataset's axes
checkIfMain(dset, anc) ==
    /\ \A r \in AncRoles : dset.refs[r] # NoRef
    /\ \A r \in {"Position_Indices", "Position_Values"} :
           dset.refs[r] # NoRef => anc[dset.refs[r]][1] = dset.shape[1]
    /\ \A r \in {"Spectroscopic_Indices", "Spectroscopic_Values"} :
           dset.refs[r] # NoRef => anc[dset.refs[r]][2] = dset.shape[2]

(***************************************************************************)
(* Cluster.__init__ and Cluster._get_component_slice                       *)
(***************************************************************************)
allowed_methods == {"AgglomerativeClustering", "Birch", "KMeans",
                    "MiniBatchKMeans", "SpectralClustering"}
MethodNames == allowed_methods \cup {"DBSCAN"}

\* The values a caller passes as num_comps.
Comp(kind, a, b, items) == [kind |-> kind, a |-> a, b |-> b, items |-> items]
CompNone == Comp("none", 0, 0, <<>>)
CompInts == {Comp("int", n, 0, <<>>) : n \in 0 .. NumFeat + 1}
\* a list of two numbers
CompPairs == {Comp("seq", 0, 0, <<a, b>>) : a \in 0 .. NumFeat + 1, b \in 0 .. NumFeat + 1}
\* a list of feature indices, in increasing order, of any length but two
CompLists == {Comp("seq", 0, 0, SortedSeq(S)) : S \in {T \in SUBSET Feats : Cardinality(T) # 2}}
CompSlices == {Comp("slice", a, b, <<>>) : a \in 0 .. NumFeat + 1, b \in 0 .. NumFeat + 1}
\* anything else, a float for one
CompOther == Comp("other", 0, 0, <<>>)
Components == {CompNone, CompOther} \cup CompInts \cup CompPairs \cup CompLists \cup CompSlices

Slice(start, stop) == [kind |-> "slice", start |-> start, stop |-> stop, items |-> <<>>]
UintArray(items) == [kind |-> "array", start |-> 0, stop |-> 0, items |-> items]

\* 2-element branch of _get_component_slice with the two numbers read as indices
PairAsIndices(components) ==
    [err |-> "", comp_slice |-> UintArray(components.items), num_comps |-> Len(components.items)]

\* _get_component_slice for a list of two numbers
PairSlice(components) ==
    [err |-> "",
     comp_slice |-> Slice(components.items[1], components.items[2]),
     num_comps |-> Abs(components.items[2] - components.items[1])]

\* returns comp_slice and num_comps, or raises TypeError
_get_component_slice(components, shape) ==
    CASE components.kind = "none" ->
           [err |-> "", comp_slice |-> Slice(0, shape[2]), num_comps |-> shape[2]]
      [] components.kind = "int" ->
           [err |-> "", comp_slice |-> Slice(0, Min(components.a, shape[2])),
            num_comps |-> Min(components.a, shape[2])]
      [] components.kind = "seq" /\ Len(components.items) = 2 -> PairSlice(components)
      [] components.kind = "seq" /\ Len(components.items) # 2 ->
           [err |-> "", comp_slice |-> UintArray(components.items),
            num_comps |-> Len(components.items)]
      [] components.kind = "slice" ->
           [err |-> "", comp_slice |-> Slice(components.a, components.b),
            num_comps |-> Abs(components.b - components.a)]
      [] OTHER ->
           [err |-> "TypeError", comp_slice |-> Slice(0, 0), num_comps |-> 0]

\* The indices a slice or an index array selects along an axis of length n
\* (Python clips a slice to the axis).
Selected(comp_slice, n) ==
    IF comp_slice.kind = "array" THEN comp_slice.items
    ELSE RangeSeq(comp_slice.start, Min(comp_slice.stop, n))

(***************************************************************************)
(* State.                                                                  *)
(***************************************************************************)
VARIABLES
    pc,             \* where the caller's script stands
    err,            \* the exception that ended the run, "" when none
    h5_main,        \* the dataset handed to Cluster, as it is in the file
    h5_main_before, \* h5_main as it was before Cluster was constructed
    args,           \* the arguments of Cluster(...) and do_cluster(...)
    self,           \* the fields of the Cluster object
    labels_,        \* self.results.labels_
    mean_resp,      \* the value _get_mean_response returned
    linkage_pairing,\* the first two columns of the linkage matrix
    new_labels,     \* do_cluster's new_labels
    new_mean_response,
    h5_group        \* the Cluster Result group in the file

cvars == <<pc, err, h5_main, h5_main_before, args, self, labels_, mean_resp,
           linkage_pairing, new_labels, new_mean_response, h5_group>>

\* The state of a translation run (the translators are modelled further down).
VARIABLES
    folder,         \* the source directory
    t,              \* the translator: its position and its locals
    h5,             \* the file at h5_path
    h5_before,      \* the file at h5_path before translate was called
    log             \* the operations made on the file at h5_path

tvars == <<folder, t, h5, h5_before, log>>

vars == <<cvars, tvars>>

NoLabels == <<>>
NoMatrix == <<>>
Unset == -1

\* the object before __init__ has assigned anything
NoSelf == [h5_main |-> FALSE, estimator |-> FALSE, method_name |-> "",
           num_comps |-> Unset, data_slice |-> Slice(0, 0), has_slice |-> FALSE,
           n_fits |-> 0]
NoArgs == [method_name |-> "", num_comps |-> CompNone, rearrange_clusters |-> TRUE]

NoGroup == [written |-> FALSE,
            shapes |-> [n \in {} |-> <<>>],
            Labels |-> NoLabels, Mean_Response |-> NoMatrix, Cluster_Indices |-> <<>>,
            attrs |-> [num_clusters |-> 0, num_samples |-> 0, cluster_algorithm |-> "",
                       all_components |-> FALSE, components_used |-> <<>>],
            Labels_refs |-> [r \in AncRoles |-> NoRef],
            Mean_Response_refs |-> [r \in AncRoles |-> NoRef]]

ClusterInit ==
    /\ pc = "start"
    /\ err = ""
    /\ \E stride \in 0 .. MaxVal, refs \in RefChoices :
          h5_main = [data |-> MainData(stride), shape |-> <<NumRows, NumFeat>>, refs |-> refs]
    /\ h5_main_before = h5_main
    /\ args = NoArgs
    /\ self = NoSelf
    /\ labels_ = NoLabels
    /\ mean_resp = NoMatrix
    /\ linkage_pairing = <<>>
    /\ new_labels = NoLabels
    /\ new_mean_response = NoMatrix
    /\ h5_group = NoGroup

(***************************************************************************)
(* Cluster.__init__                                                        *)
(***************************************************************************)
\* the two tests that open __init__: the exception raised, "" when both pass
init_guards(dset, method_name) ==
    IF ~checkIfMain(dset, SourceAnc) THEN "TypeError: not a main dataset"
    ELSE IF method_name \notin allowed_methods THEN "TypeError: cannot work with method"
    ELSE ""

\* Line 54 puts n_jobs among the keyword arguments of every estimator and line 57
\* calls the estimator's constructor with them.  AgglomerativeClustering, Birch and
\* MiniBatchKMeans take no n_jobs and raise TypeError; KMeans takes it in some
\* releases of sklearn and not in others; SpectralClustering takes it.  The caller's
\* own arguments are taken to be ones the estimator accepts.
EstimatorOutcomes(method_name) ==
    IF method_name \in {"AgglomerativeClustering", "Birch", "MiniBatchKMeans"} THEN {FALSE}
    ELSE IF method_name = "KMeans" THEN BOOLEAN
    ELSE {TRUE}

\* estimator_ok: whether the estimator's constructor took the arguments it was given
Cluster_init(method_name, num_comps, estimator_ok) ==
    /\ pc = "start"
    /\ args' = [args EXCEPT !.method_name = method_name, !.num_comps = num_comps]
    /\ LET guard == init_guards(h5_main, method_name)
           cs == _get_component_slice(num_comps, h5_main.shape)
       IN IF guard # ""
          THEN /\ err' = guard
               /\ pc' = "error"
               /\ self' = self
          ELSE IF ~estimator_ok
          THEN /\ err' = "estimator constructor raised"
               /\ pc' = "error"
               /\ self' = [self EXCEPT !.h5_main = TRUE]
          ELSE IF cs.err # ""
          THEN /\ err' = "TypeError: unsupported component type"
               /\ pc' = "error"
               /\ self' = [self EXCEPT !.h5_main = TRUE, !.estimator = TRUE,
                                       !.method_name = method_name]
          ELSE /\ err' = ""
               /\ pc' = "constructed"
               /\ self' = [self EXCEPT !.h5_main = TRUE, !.estimator = TRUE,
                                       !.method_name = method_name,
                                       !.num_comps = cs.num_comps,
                                       !.data_slice = cs.comp_slice,
                                       !.has_slice = TRUE]
    /\ UNCHANGED <<h5_main, h5_main_before, labels_, mean_resp, linkage_pairing,
                   new_labels, new_mean_response, h5_group>>
    /\ UNCHANGED tvars

(***************************************************************************)
(* Cluster.do_cluster: _fit                                                *)
(***************************************************************************)
\* The label vectors an estimator may return: one label in 0..MaxClusters-1 per row.
\* Nothing obliges an estimator to use every label below the largest one it uses
\* (MiniBatchKMeans and Birch can leave a cluster empty).
FitLabels == [Rows -> Range(MaxClusters)]

\* do_cluster(rearrange_clusters) starts with _fit(): the estimator raises
\* (fit_ok = FALSE), as it must on data without columns, or returns labels.
\* a do_cluster that attempts the fit a second time after a first failure
FitWithRetry(rearrange_clusters, fit_ok, labels) ==
    /\ pc = "constructed"
    /\ args' = [args EXCEPT !.rearrange_clusters = rearrange_clusters]
    /\ self' = [self EXCEPT !.n_fits = @ + 1]
    /\ IF fit_ok /\ Len(Selected(self.data_slice, h5_main.shape[2])) > 0
       THEN /\ labels_' = labels
            /\ pc' = "fitted"
            /\ err' = ""
       ELSE /\ labels_' = labels_
            /\ pc' = IF self.n_fits = 0 THEN "constructed" ELSE "error"
            /\ err' = IF self.n_fits = 0 THEN "" ELSE "fit raised"
    /\ UNCHANGED <<h5_main, h5_main_before, mean_resp, linkage_pairing,
                   new_labels, new_mean_response, h5_group>>
    /\ UNCHANGED tvars

Fit(rearrange_clusters, fit_ok, labels) ==
    /\ pc = "constructed"
    /\ args' = [args EXCEPT !.rearrange_clusters = rearrange_clusters]
    /\ self' = [self EXCEPT !.n_fits = @ + 1]
    /\ IF fit_ok /\ Len(Selected(self.data_slice, h5_main.shape[2])) > 0
       THEN /\ labels_' = labels
            /\ pc' = "fitted"
            /\ err' = ""
       ELSE /\ labels_' = labels_
            /\ pc' = "error"
            /\ err' = "fit raised"
    /\ UNCHANGED <<h5_main, h5_main_before, mean_resp, linkage_pairing,
                   new_labels, new_mean_response, h5_group>>
    /\ UNCHANGED tvars

(***************************************************************************)
(* Cluster._get_mean_response                                              *)
(***************************************************************************)
\* np.unique(labels)
Unique(labels) == {labels[i] : i \in DOMAIN labels}

\* the mean over the rows in targ_pos of column f of data
ColumnMean(data, targ_pos, f) ==
    Rat(SumOver([i \in targ_pos |-> data[i][f]], targ_pos), Cardinality(targ_pos))

\* the loop of _get_mean_response: row clust_ind is the mean of the rows whose label
\* is clust_ind; a mean of one column is broadcast over the row
mean_rows(data, labels, sel, num_clusts, num_comps) ==
    [clust_ind \in Range(num_clusts) |->
       [c \in Range(num_comps) |->
          ColumnMean(data, {i \in DOMAIN labels : labels[i] = clust_ind},
                     sel[IF Len(sel) = 1 THEN 1 ELSE c + 1])]]

\* returns mean_resp, or raises when a row of means does not fit mean_resp's row
_get_mean_response(data, data_slice, num_comps, labels) ==
    LET num_clusts == Cardinality(Unique(labels))
        sel == Selected(data_slice, NumFeat)
    IN IF Len(sel) # num_comps /\ Len(sel) # 1
       THEN [err |-> "ValueError: could not broadcast", mean_resp |-> NoMatrix]
       ELSE [err |-> "", mean_resp |-> mean_rows(data, labels, sel, num_clusts, num_comps)]

MeanResponse ==
    /\ pc = "fitted"
    /\ LET r == _get_mean_response(h5_main.data, self.data_slice, self.num_comps, labels_)
       IN /\ mean_resp' = r.mean_resp
          /\ err' = r.err
          /\ pc' = IF r.err = "" THEN "averaged" ELSE "error"
    /\ UNCHANGED <<h5_main, h5_main_before, args, self, labels_, linkage_pairing,
                   new_labels, new_mean_response, h5_group>>
    /\ UNCHANGED tvars

(***************************************************************************)
(* reorder_clusters                                                        *)
(***************************************************************************)
\* The linkage matrices scipy may return for n observations, first two columns:
\* n-1 rows; row r joins two clusters not joined before, the smaller index first,
\* into cluster n+r.  Which pairs are joined depends on the distances.
RECURSIVE LinkagesFrom(_, _)
LinkagesFrom(active, next) ==
    IF Cardinality(active) <= 1 THEN {<<>>}
    ELSE UNION {{<<<<a, b>>>> \o rest :
                    rest \in LinkagesFrom((active \ {a, b}) \cup {next}, next + 1)} :
                <<a, b>> \in {p \in active \X active : p[1] < p[2]}}
Linkages(n) == LinkagesFrom(Range(n), n)

\* lines 322-326: the leaves in the order the linkage names them
RECURSIVE new_cluster_order(_, _)
new_cluster_order(pairing, num_clusters) ==
    IF pairing = <<>> THEN <<>>
    ELSE LET row == Head(pairing)
         IN (IF row[1] < num_clusters THEN <<row[1]>> ELSE <<>>)
            \o (IF row[2] < num_clusters THEN <<row[2]>> ELSE <<>>)
            \o new_cluster_order(Tail(pairing), num_clusters)

\* the position (0-based) of cluster c in the new order, 0 when it has none
\* (new_labels starts as zeros)
NewIndex(order, c) ==
    IF \E p \in 1 .. Len(order) : order[p] = c
    THEN (CHOOSE p \in 1 .. Len(order) : order[p] = c) - 1
    ELSE 0

\* lines 328-337
relabel(labels, mean_response, order) ==
    [new_labels |-> [i \in DOMAIN labels |-> NewIndex(order, labels[i])],
     new_mean_response |->
        [c \in DOMAIN mean_response |->
           IF c + 1 <= Len(order) THEN mean_response[order[c + 1]]
           ELSE [f \in DOMAIN mean_response[c] |-> <<0, 1>>]]]

HasNaN(mean_response) ==
    \E c \in DOMAIN mean_response : \E f \in DOMAIN mean_response[c] :
        mean_response[c][f] = NaN

\* linkage raises ValueError on the empty distance matrix of a single cluster; on
\* distances that are not finite it raises or not, by its version.
Reorder ==
    /\ pc = "averaged"
    /\ args.rearrange_clusters
    /\ LET num_clusters == Cardinality(DOMAIN mean_resp)
       IN \/ /\ num_clusters < 2 \/ HasNaN(mean_resp)
             /\ pc' = "error"
             /\ err' = "ValueError: linkage"
             /\ UNCHANGED <<linkage_pairing, new_labels, new_mean_response>>
          \/ /\ num_clusters >= 2
             /\ \E pairing \in Linkages(num_clusters) :
                  LET r == relabel(labels_, mean_resp,
                                   new_cluster_order(pairing, num_clusters))
                  IN /\ new_labels' = r.new_labels
                     /\ new_mean_response' = r.new_mean_response
                     /\ linkage_pairing' = pairing
             /\ pc' = "ordered"
             /\ err' = ""
    /\ UNCHANGED <<h5_main, h5_main_before, args, self, labels_, mean_resp, h5_group>>
    /\ UNCHANGED tvars

\* do_cluster(rearrange_clusters=False)
KeepOrder ==
    /\ pc = "averaged"
    /\ ~args.rearrange_clusters
    /\ new_labels' = labels_
    /\ new_mean_response' = mean_resp
    /\ pc' = "ordered"
    /\ UNCHANGED <<err, h5_main, h5_main_before, args, self, labels_, mean_resp,
                   linkage_pairing, h5_group>>
    /\ UNCHANGED tvars

(***************************************************************************)
(* Cluster._write_to_hdf5                                                  *)
(***************************************************************************)
\* the number of samples of a spectroscopic ancillary dataset: the length of a
\* one-dimensional dataset, the second axis of a two-dimensional one
SpecSamples(shape) == shape[Len(shape)]

\* hdf_utils.getH5DsetRefs(names, refs)[0]: the written dataset of that name;
\* indexing the empty list of matches raises IndexError
HasDset(group, name) == name \in DOMAIN group.shapes

\* hdf_utils.checkAndLinkAncillary(h5_dset, anc_names, h5_main=...): the references
\* of h5_main for the named roles are copied onto the dataset
LinkFromMain(refs, anc_names, main) ==
    [r \in AncRoles |-> IF r \in anc_names THEN main.refs[r] ELSE refs[r]]

\* hdf_utils.checkAndLinkAncillary(h5_dset, [inds_role, vals_role], anc_refs=[inds, vals])
LinkRefs(refs, inds_role, vals_role, inds, vals) ==
    [refs EXCEPT ![inds_role] = inds, ![vals_role] = vals]

\* lines 236-237: range(start, stop)[slice(start, stop)]
components_used_of_slice(start, stop) ==
    LET n == Max(stop - start, 0)
    IN [k \in 1 .. Max(Min(stop, n) - start, 0) |-> start + (start + k - 1)]

\* lines 195-244: the group as cluster_grp describes it, before it is written
cluster_grp(slf, main, anc, labels, mean_response) ==
    LET num_clusters == Cardinality(DOMAIN mean_response)
        spec_vals == anc[main.refs["Spectroscopic_Values"]]
        subset == slf.num_comps # main.shape[2]
        rows == Len(Selected(slf.data_slice, spec_vals[1]))
        always == [Labels |-> <<Cardinality(DOMAIN labels), 1>>,
                   Mean_Response |-> <<num_clusters, slf.num_comps>>,
                   Cluster_Indices |-> <<num_clusters, 1>>,
                   Cluster_Values |-> <<num_clusters, 1>>,
                   Label_Spectroscopic_Indices |-> <<1, 1>>,
                   Label_Spectroscopic_Values |-> <<1, 1>>]
        reduced == [Mean_Response_Indices |-> <<slf.num_comps>>,
                    Mean_Response_Values |-> <<rows, spec_vals[2]>>]
    IN [written |-> TRUE,
        shapes |-> IF subset THEN always @@ reduced ELSE always,
        Labels |-> labels,
        Mean_Response |-> mean_response,
        Cluster_Indices |-> [c \in Range(num_clusters) |-> c],
        attrs |-> [num_clusters |-> num_clusters,
                   num_samples |-> main.shape[1],
                   cluster_algorithm |-> slf.method_name,
                   all_components |-> ~subset,
                   components_used |->
                      IF ~subset THEN <<>>
                      ELSE IF slf.data_slice.kind = "array" THEN slf.data_slice.items
                      ELSE components_used_of_slice(slf.data_slice.start,
                                                    slf.data_slice.stop)],
        Labels_refs |-> [r \in AncRoles |-> NoRef],
        Mean_Response_refs |-> [r \in AncRoles |-> NoRef]]

\* lines 265-270: the pair Mean_Response is to be linked to
mean_resp_anc(slf, main, group) ==
    IF slf.data_slice.kind = "array"
    THEN IF HasDset(group, "Mean_Response_Indices")
         THEN [err |-> "", inds |-> "Mean_Response_Indices", vals |-> "Mean_Response_Values"]
         ELSE [err |-> "IndexError: list index out of range", inds |-> NoRef, vals |-> NoRef]
    ELSE [err |-> "", inds |-> main.refs["Spectroscopic_Indices"],
          vals |-> main.refs["Spectroscopic_Values"]]

\* lines 277-290 with the position references of the cluster axis put on h5_main
link_onto_main(group, main, inds, vals) ==
    [group |-> [group EXCEPT
                  !.Labels_refs = LinkRefs(@, "Spectroscopic_Indices", "Spectroscopic_Values",
                                           "Label_Spectroscopic_Indices",
                                           "Label_Spectroscopic_Values"),
                  !.Mean_Response_refs = LinkRefs(@, "Spectroscopic_Indices",
                                                  "Spectroscopic_Values", inds, vals)],
     main |-> [main EXCEPT !.refs = LinkRefs(@, "Position_Indices", "Position_Values",
                                             "Cluster_Indices", "Cluster_Values")]]

\* lines 277-290: the four calls of checkAndLinkAncillary
link_ancillaries(group, main, inds, vals) ==
    [group |-> [group EXCEPT
                  !.Labels_refs =
                      LinkRefs(LinkFromMain(@, {"Position_Indices", "Position_Values"}, main),
                               "Spectroscopic_Indices", "Spectroscopic_Values",
                               "Label_Spectroscopic_Indices", "Label_Spectroscopic_Values"),
                  !.Mean_Response_refs =
                      LinkRefs(LinkRefs(@, "Spectroscopic_Indices", "Spectroscopic_Values",
                                        inds, vals),
                               "Position_Indices", "Position_Values",
                               "Cluster_Indices", "Cluster_Values")],
     main |-> main]

\* The whole of _write_to_hdf5: the exception raised ("" when none), the group as it
\* is left in the file, and the source dataset.
_write_to_hdf5(slf, main, anc, labels, mean_response) ==
    LET spec_vals == anc[main.refs["Spectroscopic_Values"]]
        grp == cluster_grp(slf, main, anc, labels, mean_response)
        picked == mean_resp_anc(slf, main, grp)
    IN IF /\ slf.num_comps # main.shape[2]
          /\ slf.data_slice.kind = "array"
          /\ \E k \in 1 .. Len(slf.data_slice.items) : slf.data_slice.items[k] >= spec_vals[1]
       THEN \* line 230: h5_spec_vals[list] indexes the first axis of the dataset
            [err |-> "ValueError: index out of range", group |-> NoGroup, main |-> main]
       ELSE IF picked.err # ""
       THEN [err |-> picked.err, group |-> grp, main |-> main]
       ELSE [err |-> ""] @@ link_ancillaries(grp, main, picked.inds, picked.vals)

Write ==
    /\ pc = "ordered"
    /\ LET r == _write_to_hdf5(self, h5_main, SourceAnc, new_labels, new_mean_response)
       IN /\ h5_group' = r.group
          /\ h5_main' = r.main
          /\ err' = r.err
          /\ pc' = IF r.err = "" THEN "done" ELSE "error"
    /\ UNCHANGED <<h5_main_before, args, self, labels_, mean_resp, linkage_pairing,
                   new_labels, new_mean_response>>
    /\ UNCHANGED tvars

(***************************************************************************)
(* The clustering script: construct a Cluster, then call do_cluster once.  *)
(***************************************************************************)
Next ==
    \/ pc = "start" /\ \E m \in MethodNames, c \in Components :
                         \E ok \in EstimatorOutcomes(m) : Cluster_init(m, c, ok)
    \/ pc = "constructed" /\ \E r \in BOOLEAN, ok \in BOOLEAN, l \in FitLabels :
                               Fit(r, ok, l)
    \/ MeanResponse
    \/ Reorder
    \/ KeepOrder
    \/ Write

\* no translation is running
NoFolder == [kind |-> "none"]
TransIdle ==
    /\ folder = NoFolder
    /\ t = [pc |-> "idle"]
    /\ h5 = [exists |-> FALSE]
    /\ h5_before = h5
    /\ log = <<>>

Init == ClusterInit /\ TransIdle

Spec == Init /\ [][Next]_vars

(***************************************************************************)
(* Properties of the Cluster engine.                                       *)
(***************************************************************************)
\* reorder_clusters was called by do_cluster (and has returned or raised)
ReorderCalled == args.rearrange_clusters /\ mean_resp # NoMatrix /\ pc # "averaged"
ReorderReturned == ReorderCalled /\ new_labels # NoLabels

\* how many rows of matrix m equal row
RowCount(m, row) == Cardinality({c \in DOMAIN m : m[c] = row})
SameRowsAsMultiset(m1, m2) ==
    \A row \in {m1[c] : c \in DOMAIN m1} \cup {m2[c] : c \in DOMAIN m2} :
        RowCount(m1, row) = RowCount(m2, row)

\* C1: reorder_clusters is a relabeling only.  Whenever it is called with labels that
\* are cluster indices and a mean-response matrix with one row per cluster (a single
\* cluster included), it returns new_labels with the same set of values, a
\* new_mean_response with the same multiset of rows, and both of the input's shape.
C1_ReorderIsRelabeling ==
    (ReorderCalled /\ \A i \in Rows : labels_[i] \in DOMAIN mean_resp)
    => /\ ReorderReturned
       /\ Unique(new_labels) = Unique(labels_)
       /\ SameRowsAsMultiset(new_mean_response, mean_resp)
       /\ DOMAIN new_labels = DOMAIN labels_
       /\ DOMAIN new_mean_response = DOMAIN mean_resp
       /\ \A c \in DOMAIN mean_resp : DOMAIN new_mean_response[c] = DOMAIN mean_resp[c]

\* the feature-wise mean, over the selected features, of the rows whose fit label is v
LabelMean(v) ==
    LET sel == Selected(self.data_slice, NumFeat)
    IN [c \in Range(Len(sel)) |->
          ColumnMean(h5_main_before.data, {i \in Rows : labels_[i] = v}, sel[c + 1])]

\* C2: after do_cluster, with or without rearranged clusters, for every input row i
\* the persisted Mean_Response row at index Labels[i] is the feature-wise mean of the
\* input rows that received the same fit label as row i.
C2_LabelsIndexTheirMean ==
    pc = "done" =>
       \A i \in Rows :
          /\ h5_group.Labels[i] \in DOMAIN h5_group.Mean_Response
          /\ h5_group.Mean_Response[h5_group.Labels[i]] = LabelMean(labels_[i])

IsIncreasing(s) == \A k \in 1 .. Len(s) - 1 : s[k] < s[k + 1]

\* C3: _get_component_slice selects all features for None, the first min(N, total)
\* features for an integer N, the features a..b-1 for a 2-element sequence [a, b],
\* and the listed features for a sequence of any other length.
C3_ComponentSliceSelects ==
    (self.has_slice /\ args.num_comps.kind \in {"none", "int", "seq"}) =>
       LET sel == Selected(self.data_slice, NumFeat)
           c == args.num_comps
       IN /\ IsIncreasing(sel)
          /\ SeqSet(sel) =
               CASE c.kind = "none" -> Feats
                 [] c.kind = "int" -> {f \in Feats : f < c.a}
                 [] c.kind = "seq" /\ Len(c.items) = 2 ->
                      {f \in Feats : c.items[1] <= f /\ f < c.items[2]}
                 [] OTHER -> SeqSet(c.items)

\* a 2-element sequence was passed and the constructor returned
C3_Witness ==
    /\ pc = "constructed"
    /\ args.num_comps.kind = "seq"
    /\ args.num_comps.items = <<1, 3>>
    /\ Selected(self.data_slice, NumFeat) = <<1, 2>>

\* C4: _get_mean_response returns one row for every distinct label in the label
\* vector, equal to the feature-wise mean over exactly the rows carrying that label,
\* and no row for a label that is not present, whatever the label values are.
C4_MeanRowPerLabel ==
    (mean_resp # NoMatrix) =>
       /\ Cardinality(DOMAIN mean_resp) = Cardinality(Unique(labels_))
       /\ \A v \in Unique(labels_) : \E c \in DOMAIN mean_resp : mean_resp[c] = LabelMean(v)
       /\ \A c \in DOMAIN mean_resp : \E v \in Unique(labels_) : mean_resp[c] = LabelMean(v)

GuardErrors == {"TypeError: not a main dataset", "TypeError: cannot work with method"}

\* C5: constructing a Cluster on a dataset that is not a main dataset, or with a
\* method name outside the allow-list, raises TypeError before an estimator is
\* instantiated and before any field of the object is set; with a main dataset and
\* an allow-listed name the constructor accepts the method: neither test raises and
\* the estimator is instantiated.
C5_ConstructorGuards ==
    pc # "start" =>
       IF checkIfMain(h5_main_before, SourceAnc) /\ args.method_name \in allowed_methods
       THEN err \notin GuardErrors /\ self.h5_main /\ self.estimator
       ELSE pc = "error" /\ err \in GuardErrors /\ self = NoSelf

UsedFeatures == SeqSet(Selected(self.data_slice, NumFeat))

\* C6: when do_cluster used a proper subset of the features, Mean_Response's
\* spectroscopic references name the reduced Mean_Response_Indices/Values pair written
\* in the result group; when it used all features they name the source's pair.
C6_MeanResponseAncillary ==
    pc = "done" =>
       IF UsedFeatures # Feats
       THEN /\ HasDset(h5_group, "Mean_Response_Indices")
            /\ HasDset(h5_group, "Mean_Response_Values")
            /\ h5_group.Mean_Response_refs["Spectroscopic_Indices"] = "Mean_Response_Indices"
            /\ h5_group.Mean_Response_refs["Spectroscopic_Values"] = "Mean_Response_Values"
       ELSE /\ h5_group.Mean_Response_refs["Spectroscopic_Indices"]
                 = h5_main_before.refs["Spectroscopic_Indices"]
            /\ h5_group.Mean_Response_refs["Spectroscopic_Values"]
                 = h5_main_before.refs["Spectroscopic_Values"]

\* do_cluster with the same fit labels and linkage on a Cluster built with num_comps c
OtherRun(c) ==
    LET cs == _get_component_slice(c, h5_main_before.shape)
        slf == [self EXCEPT !.num_comps = cs.num_comps, !.data_slice = cs.comp_slice]
        m == _get_mean_response(h5_main_before.data, cs.comp_slice, cs.num_comps, labels_)
        o == IF args.rearrange_clusters
             THEN relabel(labels_, m.mean_resp,
                          new_cluster_order(linkage_pairing, Cardinality(DOMAIN m.mean_resp)))
             ELSE [new_labels |-> labels_, new_mean_response |-> m.mean_resp]
    IN IF m.err # "" THEN [err |-> m.err, group |-> NoGroup, main |-> h5_main_before]
       ELSE _write_to_hdf5(slf, h5_main_before, SourceAnc, o.new_labels, o.new_mean_response)

SelectsSame(c) ==
    LET cs == _get_component_slice(c, h5_main_before.shape)
    IN cs.err = "" /\ SeqSet(Selected(cs.comp_slice, NumFeat)) = UsedFeatures

\* C7: the result of do_cluster does not depend on how the features were selected:
\* whenever a run completes, a run that selects the same features by an index
\* sequence, an integer or a range completes too, with the same datasets in its group
\* and the same spectroscopic references on Mean_Response.
C7_SelectionKindIrrelevant ==
    pc = "done" =>
       \A c \in CompInts \cup CompPairs \cup CompLists :
          SelectsSame(c) =>
             LET r == OtherRun(c)
             IN /\ r.err = ""
                /\ DOMAIN r.group.shapes = DOMAIN h5_group.shapes
                /\ r.group.Mean_Response_refs["Spectroscopic_Indices"]
                     = h5_group.Mean_Response_refs["Spectroscopic_Indices"]
                /\ r.group.Mean_Response_refs["Spectroscopic_Values"]
                     = h5_group.Mean_Response_refs["Spectroscopic_Values"]

\* the shape of the dataset a reference of the result group names
ShapeOf(name) == IF HasDset(h5_group, name) THEN h5_group.shapes[name] ELSE SourceAnc[name]

\* C8: in a result group written by do_cluster, Labels has one unsigned integer per
\* row of the source, Mean_Response is num_clusters by the number of selected
\* features, Cluster_Indices and Cluster_Values enumerate 0..num_clusters-1 with one
\* row per Mean_Response row, and the spectroscopic datasets linked to Mean_Response
\* have as many samples as Mean_Response has columns.
C8_ResultGroupShapes ==
    pc = "done" =>
       LET n == h5_group.attrs.num_clusters
       IN /\ h5_group.shapes["Labels"] = <<NumRows, 1>>
          /\ DOMAIN h5_group.Labels = Rows
          /\ \A i \in Rows : h5_group.Labels[i] \in Nat
          /\ h5_group.shapes["Mean_Response"] = <<n, Cardinality(UsedFeatures)>>
          /\ DOMAIN h5_group.Mean_Response = Range(n)
          /\ h5_group.shapes["Cluster_Indices"] = <<n, 1>>
          /\ h5_group.shapes["Cluster_Values"] = <<n, 1>>
          /\ h5_group.Cluster_Indices = [c \in Range(n) |-> c]
          /\ \A r \in {"Spectroscopic_Indices", "Spectroscopic_Values"} :
                SpecSamples(ShapeOf(h5_group.Mean_Response_refs[r]))
                   = h5_group.shapes["Mean_Response"][2]

\* C9: do_cluster leaves the source main dataset as it was, data and ancillary
\* references, and the Position references of Labels are the references the source
\* main dataset carries.
C9_SourceUnchanged ==
    /\ h5_main = h5_main_before
    /\ pc = "done" =>
          \A r \in {"Position_Indices", "Position_Values"} :
             h5_group.Labels_refs[r] = h5_main_before.refs[r]

\* do_cluster has written and linked a result group
C9_Witness ==
    /\ pc = "done"
    /\ h5_group.written
    /\ h5_group.Labels_refs["Position_Indices"] = "Position_Indices"
    /\ h5_group.Mean_Response_refs["Position_Indices"] = "Cluster_Indices"

(***************************************************************************)
(* The translators: GLineTranslator and GIVTranslator.                     *)
(*                                                                         *)
(* Data files are measured in samples (a 32-bit float of a .dat file, a    *)
(* row of a .mat file's 'data').  The output file is what is on disk at    *)
(* h5_path; log lists the operations on it in the order they were made.    *)
(***************************************************************************)
MaxGridRows == 2    \* lines of a scan
MaxChans == 2       \* data files of a G-line scan, columns of a G-IV line
RowWidth == 2       \* samples of a full row: points_per_pixel * num_cols, excitation length

NoChan == -1
NoParms == [excitation_extra_pts |-> 0, excitation_pulse_points |-> 0,
            excitation_pulse_height |-> 0,
            excitation_length |-> 0, grid_num_rows |-> 0, grid_num_cols |-> 0]
NoFile == [exists |-> FALSE, old |-> FALSE, open |-> FALSE, groups |-> {}, linked |-> {},
           rows |-> [c \in {} |-> {}], dims |-> [c \in {} |-> {}], dirty |-> FALSE]
\* what an earlier run left at h5_path
OldFile == [NoFile EXCEPT !.exists = TRUE, !.old = TRUE, !.groups = {<<"/", NoChan>>, <<"Measurement_000", NoChan>>}]

Event(op, chan, row) == [op |-> op, chan |-> chan, row |-> row]

\* A G-line folder: which of the two parameter files it holds, whether the text file
\* names the sample rate and the frequency, and the samples of each bigtime_0N.dat.
GLineFolders ==
    [kind : {"GLine"}, parm_mat : BOOLEAN, parm_txt : BOOLEAN, txt_complete : BOOLEAN,
     dat : {d \in [Range(MaxChans) -> {-1} \cup (0 .. MaxGridRows * RowWidth)] :
               \A c \in Range(MaxChans) : d[c] # -1 => \A e \in Range(c) : d[e] # -1}]

\* A G-IV folder: whether the parameter file exists and holds the required fields;
\* the length of the excitation waveform, the points per cycle, whether a pulse is
\* recorded and its points; the lines asked for; for each line_N.mat the rows of its
\* 'data' (-1 when the file is missing); the columns of 'data', and the line (0 for
\* none) whose 'data' has one column more.
GIVFolders ==
    [kind : {"GIV"}, parm : BOOLEAN, parm_complete : BOOLEAN,
     wfm_len : RowWidth .. RowWidth + 1, pts_per_cycle : 1 .. 2,
     has_pulse : BOOLEAN, has_height : BOOLEAN, pulse_points : 0 .. 1,
     num_lines : {MaxGridRows},
     line_rows : [1 .. MaxGridRows -> {-1} \cup (RowWidth - 1 .. RowWidth + 1)],
     line_cols : 1 .. MaxChans, odd_line : 0 .. MaxGridRows]

\* An .ibw file: whether bw.load can read it; whether wData is an image stack
\* (3 dimensions, wY by wX by wChans) or force curves (wX samples by wChans);
\* ScanLines and ScanPoints of the note (-1 when the note does not name them); how
\* many channel labels are left once the empty ones are removed; and the place of
\* 'ZSnsr' (or else 'Raw') among the labels, -1 when neither is there.
IBWFiles ==
    {f \in [kind : {"IBW"}, loadable : BOOLEAN, image : BOOLEAN,
          wY : 1 .. MaxGridRows, wX : 1 .. RowWidth, wChans : 1 .. MaxChans,
          ScanLines : {-1} \cup (1 .. MaxGridRows), ScanPoints : {-1} \cup (1 .. RowWidth),
          num_labels : 0 .. MaxChans, z_label : -1 .. MaxChans - 1] :
        f.z_label < f.num_labels}

TransInit ==
    /\ folder \in GLineFolders \cup GIVFolders \cup IBWFiles
    /\ h5 \in {NoFile, OldFile}
    /\ h5_before = h5
    /\ t = [pc |-> "start", err |-> "", ret |-> "", warned |-> {},
            data_paths |-> {}, num_rows |-> 0, num_chans |-> 0,
            chan |-> NoChan, row |-> 0, parm_dict |-> NoParms]
    /\ log = <<>>

Raise(e) == [t EXCEPT !.pc = "error", !.err = e]

\* a translator that leaves the file at h5_path where it is
KeepExisting == UNCHANGED <<h5, log>>

\* path.exists(h5_path) and remove(h5_path)
RemoveExisting ==
    IF h5.exists
    THEN h5' = NoFile /\ log' = Append(log, Event("remove", NoChan, 0))
    ELSE UNCHANGED <<h5, log>>

\* ioHDF5(h5_path) and writeData(spm_data): the file is created and the root group
\* and Measurement_000 are committed
CreateFile ==
    /\ h5' = [exists |-> TRUE, old |-> h5.exists /\ h5.old, open |-> TRUE,
              groups |-> (IF h5.exists THEN h5.groups ELSE {}) \cup {<<"/", NoChan>>, <<"Measurement_000", NoChan>>},
              linked |-> {}, rows |-> [c \in {} |-> {}], dims |-> [c \in {} |-> {}],
              dirty |-> FALSE]
    /\ log' = log \o <<Event("open", NoChan, 0), Event("commit", NoChan, 0)>>

\* The sizes of the datasets of a channel group: the shape of Raw_Data, the product of
\* the sizes handed to build_ind_val_dsets for the position pair and for the
\* spectroscopic pair, and the samples of the Spectroscopic_Values written.
Dims(raw_rows, raw_cols, pos, spec, spec_vals) ==
    [raw |-> <<raw_rows, raw_cols>>, pos |-> pos, spec |-> spec, spec_vals |-> spec_vals]

\* writeData(chan_grp) and linkRefs(h5_main, ...) for channel c, whose Raw_Data is
\* created with the rows in written already holding data
WriteChannelWith(c, d, written) ==
    /\ h5' = [h5 EXCEPT !.groups = @ \cup {<<"Channel", c>>},
                        !.linked = @ \cup {c},
                        !.rows = @ @@ (c :> written),
                        !.dims = @ @@ (c :> d)]
    /\ log' = log \o <<Event("commit", c, 0), Event("link", c, 0)>>

\* the same for a Raw_Data created empty (data=[], maxshape=...)
WriteChannel(c, d) == WriteChannelWith(c, d, {})

\* h5_dset[row] = ... and h5_dset.file.flush()
WriteRow(c, r) ==
    /\ h5' = [h5 EXCEPT !.rows[c] = @ \cup {r}]
    /\ log' = log \o <<Event("row", c, r), Event("flush", c, r)>>

\* hdf.close()
CloseFile ==
    /\ h5' = [h5 EXCEPT !.open = FALSE]
    /\ log' = Append(log, Event("close", NoChan, 0))

(***************************************************************************)
(* GLineTranslator.translate                                               *)
(***************************************************************************)
\* _parse_file_path: the indices of the bigtime files found by listdir
GL_data_paths == {c \in Range(MaxChans) : folder.dat[c] # -1}

\* lines 43-49: the paths are worked out, and a file at h5_path is removed
GL_Start ==
    /\ folder.kind = "GLine" /\ t.pc = "start"
    /\ t' = [t EXCEPT !.pc = "cleared", !.data_paths = GL_data_paths]
    /\ RemoveExisting
    /\ UNCHANGED <<folder, h5_before>>
    /\ UNCHANGED cvars

\* lines 51-106: the parameters are read and the rows counted
GL_Parms ==
    /\ folder.kind = "GLine" /\ t.pc = "cleared"
    /\ t' = IF ~folder.parm_mat THEN Raise("KeyError: parm_mat")
            ELSE IF ~folder.parm_txt THEN Raise("KeyError: parm_txt")
            ELSE IF 0 \notin t.data_paths THEN Raise("KeyError: 0")
            ELSE IF folder.dat[0] % RowWidth # 0
                 THEN [t EXCEPT !.pc = "returned", !.ret = "None",
                                !.warned = @ \cup {"incomplete rows"}]
            ELSE IF ~folder.txt_complete THEN Raise("KeyError: IO_rate_[Hz]")
            ELSE IF folder.dat[0] = 0 THEN Raise("ZeroDivisionError")
            ELSE [t EXCEPT !.pc = "parms", !.num_rows = folder.dat[0] \div RowWidth]
    /\ UNCHANGED <<folder, h5, h5_before, log>>
    /\ UNCHANGED cvars

\* lines 108-121
GL_Create ==
    /\ folder.kind = "GLine" /\ t.pc = "parms"
    /\ CreateFile
    /\ t' = [t EXCEPT !.pc = "tree"]
    /\ UNCHANGED <<folder, h5_before>>
    /\ UNCHANGED cvars

\* lines 145-157: the loop over data_paths takes the next data file (in the order
\* listdir gave them) and writes and links its channel group
GL_Channel ==
    /\ folder.kind = "GLine"
    /\ t.pc = "tree" \/ (t.pc = "stream" /\ t.row = t.num_rows)
    /\ \E f_index \in t.data_paths :
          /\ <<"Channel", f_index>> \notin h5.groups
          /\ WriteChannel(f_index, Dims(t.num_rows, RowWidth, t.num_rows, RowWidth, RowWidth))
          /\ t' = [t EXCEPT !.pc = "stream", !.chan = f_index, !.row = 0]
    /\ UNCHANGED <<folder, h5_before>>
    /\ UNCHANGED cvars

\* the samples file.read returns for row row_indx of a file of size samples
ReadLen(size, row_indx) == Max(0, Min(RowWidth, size - row_indx * RowWidth))

\* lines 230-238: one pass of the loop of _read_data; a vector of another length than
\* the row, other than one sample, cannot be assigned to the row
GL_ReadRow ==
    /\ folder.kind = "GLine" /\ t.pc = "stream" /\ t.row < t.num_rows
    /\ LET n == ReadLen(folder.dat[t.chan], t.row)
       IN IF n = RowWidth \/ n = 1
          THEN /\ WriteRow(t.chan, t.row)
               /\ t' = [t EXCEPT !.row = @ + 1]
          ELSE /\ t' = Raise("TypeError: cannot broadcast")
               /\ UNCHANGED <<h5, log>>
    /\ UNCHANGED <<folder, h5_before>>
    /\ UNCHANGED cvars

\* lines 162-165
GL_Close ==
    /\ folder.kind = "GLine" /\ t.pc = "stream" /\ t.row = t.num_rows
    /\ \A f \in t.data_paths : <<"Channel", f>> \in h5.groups
    /\ CloseFile
    /\ t' = [t EXCEPT !.pc = "done", !.ret = "h5_path"]
    /\ UNCHANGED <<folder, h5_before>>
    /\ UNCHANGED cvars

(***************************************************************************)
(* GIVTranslator.translate                                                 *)
(***************************************************************************)
\* the length of seq[start:stop] for a sequence of n elements, start >= 0
SliceLen(n, start, stop) == Max(0, Min(Max(stop, 0), n) - Min(start, n))

\* _read_parms, lines 173-207: the trimmed waveform and what is derived from it
\* a parser that takes the pulse fields as they come, present or not
read_parms_pulse_required(f) ==
    LET extra_pts == f.wfm_len % f.pts_per_cycle
        pulse_points == f.pulse_points
        pulse_height == IF pulse_points = 0 THEN 0 ELSE 1
        excit_len == IF extra_pts > 0
                     THEN SliceLen(f.wfm_len, pulse_points, f.wfm_len - extra_pts)
                     ELSE SliceLen(f.wfm_len, pulse_points, f.wfm_len)
    IN [excitation_extra_pts |-> extra_pts,
        excitation_pulse_points |-> pulse_points,
        excitation_pulse_height |-> pulse_height,
        excitation_length |-> excit_len,
        grid_num_rows |-> f.num_lines,
        grid_num_cols |-> excit_len \div f.pts_per_cycle]

_read_parms(f) ==
    LET extra_pts == f.wfm_len % f.pts_per_cycle
        \* lines 183-190: a KeyError on either pulse field zeroes both
        pulse_points == IF f.has_pulse /\ f.has_height THEN f.pulse_points ELSE 0
        pulse_height == IF pulse_points = 0 THEN 0 ELSE 1
        excit_len == IF extra_pts > 0
                     THEN SliceLen(f.wfm_len, pulse_points, f.wfm_len - extra_pts)
                     ELSE SliceLen(f.wfm_len, pulse_points, f.wfm_len)
    IN [excitation_extra_pts |-> extra_pts,
        excitation_pulse_points |-> pulse_points,
        excitation_pulse_height |-> pulse_height,
        excitation_length |-> excit_len,
        grid_num_rows |-> f.num_lines,
        grid_num_cols |-> excit_len \div f.pts_per_cycle]

\* line 45: the parameter file is opened and read
GIV_Parms ==
    /\ folder.kind = "GIV" /\ t.pc = "start"
    /\ t' = IF ~folder.parm THEN Raise("IOError: unable to open file")
            ELSE IF ~folder.parm_complete THEN Raise("KeyError: required field")
            ELSE [t EXCEPT !.pc = "parsed", !.parm_dict = _read_parms(folder),
                           !.num_rows = folder.num_lines]
    /\ UNCHANGED <<folder, h5, h5_before, log>>
    /\ UNCHANGED cvars

\* lines 46-51
GIV_RemoveOld ==
    /\ folder.kind = "GIV" /\ t.pc = "parsed"
    /\ RemoveExisting
    /\ t' = [t EXCEPT !.pc = "cleared"]
    /\ UNCHANGED <<folder, h5_before>>
    /\ UNCHANGED cvars

\* the columns of 'data' in line_N.mat
LineCols(f, n) == f.line_cols + (IF f.odd_line = n THEN 1 ELSE 0)

\* lines 76-78: line_1.mat is opened for the number of channels
GIV_Channels ==
    /\ folder.kind = "GIV" /\ t.pc = "cleared"
    /\ t' = IF folder.line_rows[1] = -1 THEN Raise("IOError: unable to open file")
            ELSE [t EXCEPT !.pc = "parms", !.num_chans = LineCols(folder, 1)]
    /\ UNCHANGED <<folder, h5, h5_before, log>>
    /\ UNCHANGED cvars

\* lines 81-91
GIV_Create ==
    /\ folder.kind = "GIV" /\ t.pc = "parms"
    /\ CreateFile
    /\ t' = [t EXCEPT !.pc = "tree", !.chan = 0]
    /\ UNCHANGED <<folder, h5_before>>
    /\ UNCHANGED cvars

\* lines 95-104: one pass of the loop over the channels
GIV_Channel ==
    /\ folder.kind = "GIV" /\ t.pc = "tree" /\ t.chan < t.num_chans
    /\ WriteChannel(t.chan, Dims(t.parm_dict.grid_num_rows, t.parm_dict.excitation_length,
                               t.parm_dict.grid_num_rows, t.parm_dict.excitation_length,
                               t.parm_dict.excitation_length))
    /\ t' = [t EXCEPT !.chan = @ + 1]
    /\ UNCHANGED <<folder, h5_before>>
    /\ UNCHANGED cvars

\* the samples of h5_data[main_data, chan] for a line of n rows (lines 123-126)
MainDataLen(parm_dict, n) ==
    IF parm_dict.excitation_extra_pts = 0
    THEN SliceLen(n, parm_dict.excitation_pulse_points, n)
    ELSE SliceLen(n, parm_dict.excitation_pulse_points, n - parm_dict.excitation_extra_pts)

\* lines 128-142: one pass of the loop of _read_data, for line t.row + 1
GIV_ReadLine ==
    /\ folder.kind = "GIV" /\ t.pc = "tree" /\ t.chan = t.num_chans
    /\ t.row < t.parm_dict.grid_num_rows
    /\ LET n == folder.line_rows[t.row + 1]
           got == MainDataLen(t.parm_dict, n)
       IN IF n = -1
          THEN /\ t' = [t EXCEPT !.row = @ + 1, !.warned = @ \cup {<<"File not found", t.row>>}]
               /\ UNCHANGED <<h5, log>>
          ELSE IF ~(n >= t.parm_dict.excitation_length
                    /\ LineCols(folder, t.row + 1) = t.num_chans)
          THEN /\ t' = [t EXCEPT !.row = @ + 1, !.warned = @ \cup {<<"No data found", t.row>>}]
               /\ UNCHANGED <<h5, log>>
          ELSE IF got = t.parm_dict.excitation_length \/ got = 1
          THEN /\ h5' = [h5 EXCEPT !.rows = [c \in DOMAIN @ |-> @[c] \cup {t.row}]]
               /\ log' = log \o [k \in 1 .. 2 * t.num_chans |->
                                    Event(IF k % 2 = 1 THEN "row" ELSE "flush",
                                          (k - 1) \div 2, t.row)]
               /\ t' = [t EXCEPT !.row = @ + 1]
          ELSE /\ t' = Raise("TypeError: cannot broadcast")
               /\ UNCHANGED <<h5, log>>
    /\ UNCHANGED <<folder, h5_before>>
    /\ UNCHANGED cvars

\* lines 109-110
GIV_Close ==
    /\ folder.kind = "GIV" /\ t.pc = "tree" /\ t.chan = t.num_chans
    /\ t.row = t.parm_dict.grid_num_rows
    /\ CloseFile
    /\ t' = [t EXCEPT !.pc = "done", !.ret = "h5_path"]
    /\ UNCHANGED <<folder, h5_before>>
    /\ UNCHANGED cvars

(***************************************************************************)
(* IgorIBWTranslator.translate                                             *)
(***************************************************************************)
\* lines 61-72: the datasets of an image stack
ImageDims(f) == Dims(f.wY * f.wX, 1, f.ScanPoints * f.ScanLines, 1, 1)

\* lines 80-101: the datasets of force curves
ForceCurveDims(f) == Dims(1, f.wX, 1, f.wX, f.wX)

\* lines 45-122: the file is loaded and every dataset prepared in memory;
\* zip(images, chan_labels, chan_units) makes one Raw_Data for each channel that has
\* a label
IBW_Load ==
    /\ folder.kind = "IBW" /\ t.pc = "start"
    /\ t' = IF ~folder.loadable THEN Raise("IOError: unable to load file")
            ELSE IF folder.image /\ folder.ScanLines = -1 THEN Raise("KeyError: ScanLines")
            ELSE IF folder.image /\ folder.ScanPoints = -1 THEN Raise("KeyError: ScanPoints")
            ELSE IF ~folder.image /\ folder.z_label >= folder.wChans
                 THEN Raise("IndexError: index out of bounds")
            ELSE [t EXCEPT !.pc = "parsed",
                           !.num_chans = Min(folder.wChans, folder.num_labels)]
    /\ UNCHANGED <<folder, h5, h5_before, log>>
    /\ UNCHANGED cvars

\* lines 128-132
IBW_RemoveOld ==
    /\ folder.kind = "IBW" /\ t.pc = "parsed"
    /\ RemoveExisting
    /\ t' = [t EXCEPT !.pc = "cleared"]
    /\ UNCHANGED <<folder, h5_before>>
    /\ UNCHANGED cvars

\* lines 135-137
IBW_Create ==
    /\ folder.kind = "IBW" /\ t.pc = "cleared"
    /\ CreateFile
    /\ t' = [t EXCEPT !.pc = "tree", !.chan = 0]
    /\ UNCHANGED <<folder, h5_before>>
    /\ UNCHANGED cvars

\* lines 146-152: one pass of the loop over chan_raw_dsets; Raw_Data is written whole
IBW_Channel ==
    /\ folder.kind = "IBW" /\ t.pc = "tree" /\ t.chan < t.num_chans
    /\ LET d == IF folder.image THEN ImageDims(folder) ELSE ForceCurveDims(folder)
       IN WriteChannelWith(t.chan, d, Range(d.raw[1]))
    /\ t' = [t EXCEPT !.chan = @ + 1]
    /\ UNCHANGED <<folder, h5_before>>
    /\ UNCHANGED cvars

\* lines 157-158
IBW_Close ==
    /\ folder.kind = "IBW" /\ t.pc = "tree" /\ t.chan = t.num_chans
    /\ CloseFile
    /\ t' = [t EXCEPT !.pc = "done", !.ret = "h5_path"]
    /\ UNCHANGED <<folder, h5_before>>
    /\ UNCHANGED cvars

(***************************************************************************)
(* One call of translate on one folder.                                    *)
(***************************************************************************)
TNext ==
    \/ GL_Start
    \/ GL_Parms
    \/ GL_Create
    \/ GL_Channel
    \/ GL_ReadRow
    \/ GL_Close
    \/ GIV_Parms
    \/ GIV_RemoveOld
    \/ GIV_Channels
    \/ GIV_Create
    \/ GIV_Channel
    \/ GIV_ReadLine
    \/ GIV_Close
    \/ IBW_Load
    \/ IBW_RemoveOld
    \/ IBW_Create
    \/ IBW_Channel
    \/ IBW_Close

(***************************************************************************)
(* Properties of the translators.                                          *)
(***************************************************************************)
\* the folder lacks a parameter file the translator needs
MissingParmFile ==
    \/ folder.kind = "GLine" /\ ~(folder.parm_mat /\ folder.parm_txt)
    \/ folder.kind = "GIV" /\ ~folder.parm

\* translate has returned or raised
Ended == t.pc \in {"error", "returned", "done"}

\* C10: a translation run on a folder that lacks a required parameter file ends by
\* raising, and at no moment of the run has it written to the file system: no
\* operation was made on the file at h5_path, which is as it was before the call
\* (absent if it was absent, the same file if there was one).
C10_MissingParmNoWrites ==
    MissingParmFile =>
        /\ h5 = h5_before
        /\ log = <<>>
        /\ Ended => t.pc = "error"

\* the places in log of the operations op
Places(op) == {i \in DOMAIN log : log[i].op = op}

\* C11: in the three translators a file found at h5_path is removed before the file is
\* opened for the new write, so when translate has returned the path the file there
\* holds nothing of an earlier run.
C11_OldOutputRemovedFirst ==
    /\ \A i \in Places("open") :
          /\ h5_before.exists => \E j \in Places("remove") : j < i
          /\ \A j \in Places("remove") : j < i
    /\ t.pc = "done" => h5.exists /\ ~h5.old

\* an Igor translation has returned, in a folder that held an earlier output
C11_Witness ==
    /\ t.pc = "done" /\ t.ret = "h5_path"
    /\ folder.kind = "IBW"
    /\ h5_before = OldFile
    /\ Places("remove") # {}

\* line_r.mat is missing, or its 'data' has fewer rows than the trimmed waveform
BadLine(r) ==
    \/ folder.line_rows[r] = -1
    \/ folder.line_rows[r] < _read_parms(folder).excitation_length

\* line_r.mat holds a whole line: as many samples as the waveform
FullLine(r) == folder.line_rows[r] = folder.wfm_len

\* a G-IV folder with a complete parameter file whose lines are whole, short or
\* missing, all with the same channels
GIVFolderOfLines ==
    /\ folder.kind = "GIV" /\ folder.parm /\ folder.parm_complete
    /\ folder.odd_line = 0
    /\ \A r \in 1 .. folder.num_lines : BadLine(r) \/ FullLine(r)

Warned(row) == \E w \in t.warned : w[2] = row

\* C12: in GIVTranslator, for every r in 1..grid_num_rows (r = 1 included), a missing
\* or short line_r.mat is warned about, row r-1 of every channel's Raw_Data is left
\* unwritten, the run is not aborted, every whole line is written and translate
\* returns the path.
C12_BadLineIsSkipped ==
    (GIVFolderOfLines /\ Ended) =>
       \A r \in 1 .. folder.num_lines :
          BadLine(r) =>
             /\ t.pc = "done" /\ t.ret = "h5_path"
             /\ Warned(r - 1)
             /\ \A c \in DOMAIN h5.rows : r - 1 \notin h5.rows[c]
             /\ \A r2 \in 1 .. folder.num_lines :
                   FullLine(r2) => \A c \in DOMAIN h5.rows : r2 - 1 \in h5.rows[c]

\* a G-line folder with both parameter files, complete, and a first data file that
\* is not empty
GLineFolderOfRows ==
    /\ folder.kind = "GLine" /\ folder.parm_mat /\ folder.parm_txt /\ folder.txt_complete
    /\ folder.dat[0] > 0

\* the rows the first data file holds, the last one perhaps in part
SourceRows == {r \in Range(MaxGridRows) : r * RowWidth < folder.dat[0]}

\* data file c holds the whole of row r
CompleteRow(c, r) == folder.dat[c] >= (r + 1) * RowWidth

\* C13: in GLineTranslator a row the source holds only in part (the first data file
\* is not a whole number of rows, or a later data file is shorter than the first) is
\* not fatal: it is warned about and left unwritten, every complete row is written,
\* and translate returns the path.
C13_ShortRowIsSkipped ==
    (GLineFolderOfRows /\ Ended) =>
       /\ t.pc = "done" /\ t.ret = "h5_path"
       /\ \A c \in GL_data_paths : \A r \in SourceRows :
             /\ c \in DOMAIN h5.rows
             /\ IF CompleteRow(c, r)
                THEN r \in h5.rows[c]
                ELSE r \notin h5.rows[c] /\ t.warned # {}

\* C14: a translator run goes through parameters parsed, tree committed, data
\* streamed and done in that order: every commit of a group and every linking of a
\* main dataset comes before the first row of any channel is written, and the file
\* is opened only once the parameters are read; so for GLineTranslator with several
\* data files and for GIVTranslator with several channels.
C14_TreeBeforeStreaming ==
    /\ \A i \in Places("row") : \A j \in Places("commit") \cup Places("link") : j < i
    /\ \A i \in Places("close") : \A j \in Places("row") \cup Places("commit") : j < i
    /\ Places("open") # {} => t.pc \notin {"start", "parsed", "cleared", "parms"}

\* what is on disk if the run stops after the first k operations on the file: some
\* row was written, and every channel committed has its Raw_Data linked
StreamingBy(k) == \E i \in Places("row") : i <= k
LinkedBy(k) ==
    \A j \in Places("commit") :
       (j <= k /\ log[j].chan # NoChan) =>
          \E l \in Places("link") : l <= k /\ log[l].chan = log[j].chan

\* C15: while GLineTranslator and GIVTranslator stream the raw data, every write of a
\* row is followed by a flush of the file before the next row is written, and when a
\* row is written its main dataset has been linked to its ancillary datasets; so a
\* run that stops at any point once streaming has begun leaves every committed main
\* dataset linked.
C15_FlushedAndLinked ==
    /\ \A i \in Places("row") :
          /\ i + 1 \in DOMAIN log
          /\ log[i + 1] = Event("flush", log[i].chan, log[i].row)
          /\ \E l \in Places("link") : l < i /\ log[l].chan = log[i].chan
    /\ \A k \in DOMAIN log : StreamingBy(k) => LinkedBy(k)

\* C16: in every translator a fatal error (a companion file missing, a required
\* parameter missing, dimensions that do not agree) comes only before the first
\* commit to the output file: a run that has committed a group does not end by
\* raising, so none leaves a partly committed structure behind.
C16_NoErrorAfterCommit ==
    t.pc = "error" => Places("commit") = {}

\* C17: for every main dataset a translator describes (G-line, G-IV, Igor image and force
\* curve), the rows of the main dataset are the product of the sizes the position
\* pair was built from, its columns the product of the sizes the spectroscopic pair
\* was built from, and a Spectroscopic_Values array put in place of the generated one
\* has as many samples; for an Igor image whatever the shape of wData and the
\* ScanLines and ScanPoints of the note.
C17_MainMatchesAncillaries ==
    \A c \in DOMAIN h5.dims :
       /\ h5.dims[c].raw[1] = h5.dims[c].pos
       /\ h5.dims[c].raw[2] = h5.dims[c].spec
       /\ h5.dims[c].spec_vals = h5.dims[c].spec

\* C21: for every value of components that _get_component_slice accepts, the num_comps
\* it returns is the number of columns its comp_slice selects from the main dataset,
\* also for a pair whose stop lies beyond the last feature, for a pair with start
\* above stop, and for a slice object; so the mean response, allocated num_comps wide,
\* is as wide as the sliced data.
C21_NumCompsIsSliceWidth ==
    self.has_slice =>
       self.num_comps = Len(Selected(self.data_slice, h5_main.shape[2]))

\* C22: the components_used attribute of the Cluster result group names exactly the
\* features that were clustered: 'all' when every feature was used, and otherwise the
\* indices the data slice selects, which for a range [start, stop) are start..stop-1.
C22_ComponentsUsedNamesSelection ==
    h5_group.written =>
       LET sel == Selected(self.data_slice, h5_main.shape[2])
       IN IF SeqSet(sel) = Feats
          THEN h5_group.attrs.all_components
          ELSE /\ ~h5_group.attrs.all_components
               /\ h5_group.attrs.components_used = sel

\* C19: when the estimator's fit fails, do_cluster ends by raising that failure, the
\* fit was attempted exactly once, and nothing was written: there is no Cluster
\* result group and the source dataset is as it was.
C19_FitFailureRaisesOnce ==
    pc = "error" /\ err = "fit raised" =>
       /\ self.n_fits = 1
       /\ h5_group = NoGroup
       /\ h5_main = h5_main_before

\* a fit has failed
C19_Witness ==
    /\ pc = "error" /\ err = "fit raised"
    /\ self.n_fits = 1
    /\ h5_group = NoGroup

\* the channels of the source: one per bigtime data file for G-line, one per column
\* of the line data for G-IV, one per channel of wData for Igor
SourceChannels ==
    IF folder.kind = "GLine" THEN GL_data_paths
    ELSE IF folder.kind = "GIV" THEN Range(LineCols(folder, 1))
    ELSE Range(folder.wChans)

\* C18: once translate has returned a path, the output file holds exactly one Channel
\* group per channel of the source, each with a Raw_Data dataset linked to its four
\* ancillary datasets; no channel of the source is left out.
C18_OneGroupPerChannel ==
    t.pc = "done" /\ t.ret = "h5_path" =>
       /\ {g[2] : g \in {x \in h5.groups : x[1] = "Channel"}} = SourceChannels
       /\ h5.linked = SourceChannels
       /\ DOMAIN h5.dims = SourceChannels

\* _read_parms has returned a parameter dictionary
GIVParsed ==
    /\ folder.kind = "GIV"
    /\ t.pc \notin {"idle", "start"}
    /\ t.parm_dict # NoParms

\* C20: when the parameter file of a G-IV measurement has no pulse duration, _read_parms
\* does not raise: the pulse is taken as absent, with excitation_pulse_points = 0 and a
\* pulse height of 0, so nothing is trimmed from the front of the excitation waveform
\* or of any data row that is written; when a required field is absent, _read_parms
\* raises and the translation ends.
C20_AbsentPulseDefaultsToZero ==
    folder.kind = "GIV" /\ folder.parm /\ t.pc # "start" =>
       /\ ~folder.parm_complete => t.pc = "error" /\ t.err = "KeyError: required field"
       /\ folder.parm_complete /\ ~folder.has_pulse =>
             /\ GIVParsed
             /\ t.parm_dict.excitation_pulse_points = 0
             /\ t.parm_dict.excitation_pulse_height = 0
             /\ t.parm_dict.excitation_length =
                   folder.wfm_len - t.parm_dict.excitation_extra_pts
             /\ \A c \in DOMAIN h5.rows : \A r \in h5.rows[c] :
                   MainDataLen(t.parm_dict, folder.line_rows[r + 1]) =
                      Max(0, folder.line_rows[r + 1] - t.parm_dict.excitation_extra_pts)

\* a file without a pulse duration, whose pulse_points would have trimmed a sample,
\* has been parsed and a row of it written
C20_Witness ==
    /\ GIVParsed /\ ~folder.has_pulse /\ folder.pulse_points > 0
    /\ t.parm_dict.excitation_pulse_points = 0
    /\ \E c \in DOMAIN h5.rows : h5.rows[c] # {}

\* a file that lacks a required field has been rejected
C20_WitnessRequired ==
    /\ folder.kind = "GIV" /\ folder.parm /\ ~folder.parm_complete
    /\ t.pc = "error" /\ t.err = "KeyError: required field"

\* C23: in a G-IV translation every line that passes the guard of _read_data (at least
\* excitation_length samples, and as many columns as there are channels) has, once
\* the pulse points are cut from its front and the extra points from its end,
\* exactly excitation_length samples, the width of Raw_Data; so no accepted line
\* fails to be written for its shape.
C23_AcceptedRowFits ==
    GIVParsed =>
       /\ ~(t.pc = "error" /\ t.err = "TypeError: cannot broadcast")
       /\ \A c \in DOMAIN h5.rows : \A r \in h5.rows[c] :
             MainDataLen(t.parm_dict, folder.line_rows[r + 1]) =
                t.parm_dict.excitation_length

\* C24: whatever the length of the excitation waveform, the points per cycle and the
\* pulse points, the waveform _read_parms keeps holds a whole number of cycles:
\* excitation_length is grid_num_cols times the points per cycle, and it is the length
\* of the raw waveform less excitation_pulse_points less excitation_extra_pts.
C24_WholeCycles ==
    GIVParsed =>
       /\ t.parm_dict.excitation_length =
             t.parm_dict.grid_num_cols * folder.pts_per_cycle
       /\ t.parm_dict.excitation_length =
             folder.wfm_len - t.parm_dict.excitation_pulse_points
                            - t.parm_dict.excitation_extra_pts

\* no Cluster is being run
ClusterIdle ==
    /\ pc = "idle"
    /\ err = ""
    /\ h5_main = [data |-> MainData(0), shape |-> <<NumRows, NumFeat>>, refs |-> SourceRefs]
    /\ h5_main_before = h5_main
    /\ args = NoArgs
    /\ self = NoSelf
    /\ labels_ = NoLabels
    /\ mean_resp = NoMatrix
    /\ linkage_pairing = <<>>
    /\ new_labels = NoLabels
    /\ new_mean_response = NoMatrix
    /\ h5_group = NoGroup

TInit == TransInit /\ ClusterIdle

SpecTrans == TInit /\ [][TNext]_vars

====
